---- MODULE Spec2Model ----
(***************************************************************************)
(* Showtime reconciliation: title normalization, composite-key matching,   *)
(* field diffing, the add/update/archive preview, and the preview-then-    *)
(* apply protocol over the showtime table.                                 *)
(*                                                                         *)
(* Texts are TLA+ strings; a character is a string of length 1.            *)
(***************************************************************************)
EXTENDS Integers, Sequences, FiniteSets, TLC

VARIABLES
    title,      \* SpecNormalize: the title handed to normalizeTitle
    out,        \* SpecNormalize: successive results, each the normalization of the previous
    csvRows,    \* SpecReconcile: the parsed CSV rows handed to reconcile
    existingShowtimes, \* SpecReconcile: the active showtimes handed to reconcile
    result,     \* SpecReconcile: <<>> before the call, then <<what reconcile returned>>
    showtimeTable, \* the showtime table: identifier -> stored row
    nextId,     \* the identifier the table assigns next
    preview,    \* page.tsx state: <<>> (null) or <<the preview shown in the modal>>
    uploading,  \* page.tsx state
    applying,   \* page.tsx state
    call,       \* the page's HTTP exchange in progress: <<>> or <<exchange>>
    held,       \* the preview an API caller got from /upload: <<>> or <<preview>>
    seeding,    \* seed handlers between their deleteMany and their createMany
    assumed,    \* history: per client, the rows its preview refers to, as they were read
    commits,    \* history: how often a transaction of the page's current preview committed
    interval,   \* page.tsx: whether the polling effect's setInterval timer is set
    polls       \* history: how many fetches the polling timer has started

vars == <<title, out, csvRows, existingShowtimes, result, showtimeTable, nextId, preview,
          uploading, applying, call, held, seeding, assumed, commits, interval, polls>>

pureVars == <<title, out, csvRows, existingShowtimes, result>>

pollVars == <<interval, polls>>

systemVars == <<showtimeTable, nextId, preview, uploading, applying, call, held, seeding, assumed,
                commits, interval, polls>>

(***************************************************************************)
(* Bounds of the model.                                                    *)
(***************************************************************************)
\* longest enumerated title (sample titles are longer)
MaxTitleLen == 3
\* most CSV rows in one enumerated batch
MaxRows == 2
\* most existing showtimes in one enumerated call of reconcile
MaxExisting == 2
\* identifiers the table hands out before the model stops creating rows
MaxId == 8
\* seed requests running at the same time
MaxSeeding == 1
MaxFault == 2

(***************************************************************************)
(* Strings: the JavaScript string operations the code uses.                *)
(***************************************************************************)
UpperLetters == "ABCDEFGHIJKLMNOPQRSTUVWXYZ"
LowerLetters == "abcdefghijklmnopqrstuvwxyz"
DigitChars == "0123456789"

CharAt(s, i) == SubSeq(s, i, i)

Rest(s) == SubSeq(s, 2, Len(s))

CharsOf(s) == {CharAt(s, i) : i \in 1..Len(s)}

\* position of character c in s, 0 when absent
IndexOf(s, c) ==
    IF \E i \in 1..Len(s) : CharAt(s, i) = c
    THEN CHOOSE i \in 1..Len(s) : CharAt(s, i) = c /\ \A j \in 1..(i - 1) : CharAt(s, j) # c
    ELSE 0

\* regex class \w : [A-Za-z0-9_]
WordChars == CharsOf(UpperLetters) \cup CharsOf(LowerLetters) \cup CharsOf(DigitChars) \cup {"_"}

IsWordChar(c) == c \in WordChars

\* regex class \s, and what String.prototype.trim strips (ASCII part)
IsSpace(c) == c \in {" ", "\t", "\n", "\r"}

LowerOf == [c \in CharsOf(UpperLetters) |-> CharAt(LowerLetters, IndexOf(UpperLetters, c))]

LowerChar(c) == IF c \in DOMAIN LowerOf THEN LowerOf[c] ELSE c

RECURSIVE toLowerCase(_)
toLowerCase(s) == IF s = "" THEN "" ELSE LowerChar(CharAt(s, 1)) \o toLowerCase(Rest(s))

\* mutant of ReplacePunctuation: punctuation is deleted instead of replaced by a space
RECURSIVE RemovePunctuation(_)
RemovePunctuation(s) ==
    IF s = "" THEN ""
    ELSE (IF IsWordChar(CharAt(s, 1)) \/ IsSpace(CharAt(s, 1)) THEN CharAt(s, 1) ELSE "")
         \o RemovePunctuation(Rest(s))

\* s.replace(/[^\w\s]/g, " ")
RECURSIVE ReplacePunctuation(_)
ReplacePunctuation(s) ==
    IF s = "" THEN ""
    ELSE (IF IsWordChar(CharAt(s, 1)) \/ IsSpace(CharAt(s, 1)) THEN CharAt(s, 1) ELSE " ")
         \o ReplacePunctuation(Rest(s))

\* s.replace(/\s+/g, " ")
RECURSIVE CollapseSpaces(_)
CollapseSpaces(s) ==
    IF s = "" THEN ""
    ELSE IF IsSpace(CharAt(s, 1))
         THEN IF Len(s) > 1 /\ IsSpace(CharAt(s, 2))
              THEN CollapseSpaces(Rest(s))
              ELSE " " \o CollapseSpaces(Rest(s))
         ELSE CharAt(s, 1) \o CollapseSpaces(Rest(s))

RECURSIVE TrimStart(_)
TrimStart(s) == IF s # "" /\ IsSpace(CharAt(s, 1)) THEN TrimStart(Rest(s)) ELSE s

RECURSIVE TrimEnd(_)
TrimEnd(s) ==
    IF s # "" /\ IsSpace(CharAt(s, Len(s))) THEN TrimEnd(SubSeq(s, 1, Len(s) - 1)) ELSE s

\* String.prototype.trim
trim(s) == TrimEnd(TrimStart(s))

\* s.split(" "): the pieces between single spaces; "" splits to [""]
RECURSIVE split(_)
split(s) ==
    LET i == IndexOf(s, " ")
    IN  IF i = 0 THEN <<s>>
        ELSE <<SubSeq(s, 1, i - 1)>> \o split(SubSeq(s, i + 1, Len(s)))

\* words.join(" ")
RECURSIVE join(_)
join(words) ==
    IF words = <<>> THEN ""
    ELSE IF Len(words) = 1 THEN words[1]
    ELSE words[1] \o " " \o join(Tail(words))

(***************************************************************************)
(* normalize.ts                                                            *)
(***************************************************************************)
wordToDigit ==
    [w \in {"one", "two", "three", "four", "five", "six", "seven", "eight", "nine", "ten"} |->
        CASE w = "one" -> "1" [] w = "two" -> "2" [] w = "three" -> "3"
          [] w = "four" -> "4" [] w = "five" -> "5" [] w = "six" -> "6"
          [] w = "seven" -> "7" [] w = "eight" -> "8" [] w = "nine" -> "9"
          [] w = "ten" -> "10"]

\* wordToDigit is an object literal, so wordToDigit[word] also finds what the
\* literal inherits from Object.prototype.  Of the inherited names only these
\* two are lower case, hence possible after toLowerCase; the value found is
\* truthy and join() turns it into text.
ObjectPrototype ==
    [w \in {"constructor", "__proto__"} |->
        IF w = "constructor" THEN "function Object() { [native code] }" ELSE "[object Object]"]

\* wordToDigit[word] || word
MapWord(word) ==
    IF word \in DOMAIN wordToDigit THEN wordToDigit[word]
    ELSE IF word \in DOMAIN ObjectPrototype THEN ObjectPrototype[word]
    ELSE word

MapWords(words) == [i \in 1..Len(words) |-> MapWord(words[i])]

normalizeTitle(t) ==
    join(MapWords(split(trim(CollapseSpaces(ReplacePunctuation(toLowerCase(t)))))))

(***************************************************************************)
(* Dates.  A Date object is [time |-> t], t the instant written the way    *)
(* toISOString prints it, or "NaN" for an Invalid Date.  new Date(text)    *)
(* is modelled for the ISO texts  YYYY-MM-DDTHH:MM:SS  followed by  Z ,    *)
(* .000Z  or  +00:00 ; every other text of the inputs below is one that    *)
(* JavaScript does not parse either.                                       *)
(***************************************************************************)
RangeError == "RangeError: Invalid time value"

Digits == CharsOf(DigitChars)

IsDigit(c) == c \in Digits

\* YYYY-MM-DDTHH:MM:SS
IsDateTime(s) ==
    /\ Len(s) = 19
    /\ \A i \in {1, 2, 3, 4, 6, 7, 9, 10, 12, 13, 15, 16, 18, 19} : IsDigit(CharAt(s, i))
    /\ CharAt(s, 5) = "-" /\ CharAt(s, 8) = "-" /\ CharAt(s, 11) = "T"
    /\ CharAt(s, 14) = ":" /\ CharAt(s, 17) = ":"

\* new Date(text)
NewDate(text) ==
    IF Len(text) > 19 /\ IsDateTime(SubSeq(text, 1, 19))
       /\ SubSeq(text, 20, Len(text)) \in {"Z", ".000Z", "+00:00"}
    THEN [time |-> SubSeq(text, 1, 19) \o ".000Z"]
    ELSE [time |-> "NaN"]

\* Date.prototype.toISOString: throws a RangeError on an Invalid Date
toISOString(d) == IF d.time = "NaN" THEN RangeError ELSE d.time

(***************************************************************************)
(* reconcile.ts                                                            *)
(***************************************************************************)
\* row.column || "" : an absent column reads undefined
Column(row, c) == IF c \in DOMAIN row THEN row[c] ELSE ""

\* mutant of csvRowToShowtimeData: the record keeps the normalized title
csvRowToNormalizedData(row) ==
    [theaterName |-> trim(Column(row, "theater_name")),
     movieTitle  |-> normalizeTitle(Column(row, "movie_title")),
     auditorium  |-> trim(Column(row, "auditorium")),
     startTime   |-> trim(Column(row, "start_time")),
     endTime     |-> trim(Column(row, "end_time")),
     language    |-> trim(Column(row, "language")),
     format      |-> trim(Column(row, "format")),
     rating      |-> trim(Column(row, "rating")),
     lastUpdated |-> trim(Column(row, "last_updated"))]

csvRowToShowtimeData(row) ==
    [theaterName |-> trim(Column(row, "theater_name")),
     movieTitle  |-> trim(Column(row, "movie_title")),
     auditorium  |-> trim(Column(row, "auditorium")),
     startTime   |-> trim(Column(row, "start_time")),
     endTime     |-> trim(Column(row, "end_time")),
     language    |-> trim(Column(row, "language")),
     format      |-> trim(Column(row, "format")),
     rating      |-> trim(Column(row, "rating")),
     lastUpdated |-> trim(Column(row, "last_updated"))]

\* mutant of makeKey: an unparseable start time gives a key and no exception
makeKeyOfAnyText(normalizedTitle, startTime) ==
    normalizedTitle \o "|" \o NewDate(startTime).time

\* `${normalizedTitle}|${new Date(startTime).toISOString()}`, or the RangeError thrown
makeKey(normalizedTitle, startTime) ==
    IF toISOString(NewDate(startTime)) = RangeError THEN RangeError
    ELSE normalizedTitle \o "|" \o toISOString(NewDate(startTime))

existingToShowtimeData(s) ==
    [theaterName |-> s.theaterName,
     movieTitle  |-> s.movieTitle,
     auditorium  |-> s.auditorium,
     startTime   |-> toISOString(s.startTime),
     endTime     |-> toISOString(s.endTime),
     language    |-> s.language,
     format      |-> s.format,
     rating      |-> s.rating,
     lastUpdated |-> toISOString(s.lastUpdated)]

\* mutant of DiffFields: the start time compared like the other text fields
DiffFieldsWithStartTime ==
    <<"theaterName", "movieTitle", "auditorium", "startTime", "endTime", "language", "format",
      "rating", "lastUpdated">>

\* mutant of DiffFields: the title left out of the comparison
DiffFieldsWithoutTitle ==
    <<"theaterName", "auditorium", "endTime", "language", "format", "rating", "lastUpdated">>

DiffFields ==
    <<"theaterName", "movieTitle", "auditorium", "endTime", "language", "format", "rating",
      "lastUpdated">>

IsDateField(f) == f \in {"endTime", "lastUpdated"}

\* the value computeDiffs compares for one field: ISO text for the date fields
Comparable(data, f) == IF IsDateField(f) THEN toISOString(NewDate(data[f])) ELSE data[f]

\* mutant of DiffsFrom: the old and the new value change places
RECURSIVE DiffsFromSwapped(_, _, _, _)
DiffsFromSwapped(fields, i, existing, incoming) ==
    IF i > Len(fields) THEN <<>>
    ELSE LET f == fields[i]
             oldVal == Comparable(existing, f)
             newVal == Comparable(incoming, f)
         IN  IF oldVal # newVal
             THEN <<[field |-> f, oldValue |-> newVal, newValue |-> oldVal]>>
                  \o DiffsFromSwapped(fields, i + 1, existing, incoming)
             ELSE DiffsFromSwapped(fields, i + 1, existing, incoming)

\* the loop of computeDiffs from field number i on
RECURSIVE DiffsFrom(_, _, _, _)
DiffsFrom(fields, i, existing, incoming) ==
    IF i > Len(fields) THEN <<>>
    ELSE LET f == fields[i]
             oldVal == Comparable(existing, f)
             newVal == Comparable(incoming, f)
         IN  IF oldVal # newVal
             THEN <<[field |-> f, oldValue |-> oldVal, newValue |-> newVal]>>
                  \o DiffsFrom(fields, i + 1, existing, incoming)
             ELSE DiffsFrom(fields, i + 1, existing, incoming)

\* whether computeDiffs throws: toISOString of an unparseable endTime or lastUpdated
DiffsThrow(existing, incoming) ==
    \E f \in {"endTime", "lastUpdated"} :
        RangeError \in {Comparable(existing, f), Comparable(incoming, f)}

computeDiffs(existing, incoming) == DiffsFrom(DiffFields, 1, existing, incoming)

\* A JavaScript Map: its entries in insertion order.
MapHas(m, k) == \E i \in 1..Len(m) : m[i].key = k

MapGet(m, k) == m[CHOOSE i \in 1..Len(m) : m[i].key = k].value

\* set() of a key already present keeps its place and replaces its value
MapSet(m, k, v) ==
    IF MapHas(m, k)
    THEN [i \in 1..Len(m) |-> IF m[i].key = k THEN [key |-> k, value |-> v] ELSE m[i]]
    ELSE Append(m, [key |-> k, value |-> v])

MapKeys(m) == {m[i].key : i \in 1..Len(m)}

\* mutant of HasRequired: the truthiness check without the trim
HasRequiredUntrimmed(row) == Column(row, "movie_title") # "" /\ Column(row, "start_time") # ""

\* Step 1: rows with a movie title and a start time left after trim
HasRequired(row) == trim(Column(row, "movie_title")) # "" /\ trim(Column(row, "start_time")) # ""

CleanedRows(rows) ==
    LET kept == SelectSeq(rows, HasRequired)
    IN  [i \in 1..Len(kept) |-> csvRowToShowtimeData(kept[i])]

RowKey(data) == makeKey(normalizeTitle(data.movieTitle), data.startTime)

\* mutant of Dedupe: a later row of a key replaces the earlier one
RECURSIVE DedupeLastWins(_, _)
DedupeLastWins(cleaned, deduped) ==
    IF cleaned = <<>> THEN deduped
    ELSE LET key == RowKey(Head(cleaned))
         IN  DedupeLastWins(Tail(cleaned), MapSet(deduped, key, Head(cleaned)))

\* Step 2: first occurrence wins
RECURSIVE Dedupe(_, _)
Dedupe(cleaned, deduped) ==
    IF cleaned = <<>> THEN deduped
    ELSE LET key == RowKey(Head(cleaned))
         IN  Dedupe(Tail(cleaned),
                    IF MapHas(deduped, key) THEN deduped
                    ELSE MapSet(deduped, key, Head(cleaned)))

ExistingKey(s) == makeKey(normalizeTitle(s.movieTitle), toISOString(s.startTime))

\* mutant of BuildExistingMap: every showtime gets an entry of its own
RECURSIVE BuildExistingMapKeepingAll(_, _)
BuildExistingMapKeepingAll(showtimes, existingMap) ==
    IF showtimes = <<>> THEN existingMap
    ELSE BuildExistingMapKeepingAll(Tail(showtimes),
             Append(existingMap,
                    [key |-> ExistingKey(Head(showtimes)),
                     value |-> [id |-> Head(showtimes).id,
                                data |-> existingToShowtimeData(Head(showtimes))]]))

\* mutant of BuildExistingMap: the first showtime of a key is kept
RECURSIVE BuildExistingMapFirstWins(_, _)
BuildExistingMapFirstWins(showtimes, existingMap) ==
    IF showtimes = <<>> THEN existingMap
    ELSE LET key == ExistingKey(Head(showtimes))
         IN  BuildExistingMapFirstWins(Tail(showtimes),
                 IF MapHas(existingMap, key) THEN existingMap
                 ELSE MapSet(existingMap, key,
                             [id |-> Head(showtimes).id,
                              data |-> existingToShowtimeData(Head(showtimes))]))

\* Step 3: the last showtime of a key overwrites the earlier ones
RECURSIVE BuildExistingMap(_, _)
BuildExistingMap(showtimes, existingMap) ==
    IF showtimes = <<>> THEN existingMap
    ELSE BuildExistingMap(Tail(showtimes),
             MapSet(existingMap, ExistingKey(Head(showtimes)),
                    [id |-> Head(showtimes).id, data |-> existingToShowtimeData(Head(showtimes))]))

\* mutant of Categorize: a matched row gives an update even when nothing differs
CategorizeUnchangedToo(entry, existingMap) ==
    IF MapHas(existingMap, entry.key)
    THEN LET existing == MapGet(existingMap, entry.key)
         IN  <<[type |-> "update", existingId |-> existing.id, data |-> entry.value,
                diffs |-> computeDiffs(existing.data, entry.value)]>>
    ELSE <<[type |-> "add", data |-> entry.value]>>

\* Step 4, one CSV row: the add or update it pushes, if any
Categorize(entry, existingMap) ==
    IF MapHas(existingMap, entry.key)
    THEN LET existing == MapGet(existingMap, entry.key)
             diffs == computeDiffs(existing.data, entry.value)
         IN  IF Len(diffs) > 0
             THEN <<[type |-> "update", existingId |-> existing.id, data |-> entry.value,
                     diffs |-> diffs]>>
             ELSE <<>>
    ELSE <<[type |-> "add", data |-> entry.value]>>

\* Step 4: the adds and updates the loop pushes, in the order of the rows
RECURSIVE Actions(_, _)
Actions(deduped, existingMap) ==
    IF deduped = <<>> THEN <<>>
    ELSE Categorize(Head(deduped), existingMap) \o Actions(Tail(deduped), existingMap)

\* mutant of Archives: the matched keys are not skipped
ArchivesIgnoringMatched(existingMap, matchedExistingKeys) ==
    [i \in 1..Len(existingMap) |->
        [type |-> "archive", existingId |-> existingMap[i].value.id,
         data |-> existingMap[i].value.data]]

\* Step 5: every existing key no CSV row matched
Archives(existingMap, matchedExistingKeys) ==
    LET left == SelectSeq(existingMap, LAMBDA e : e.key \notin matchedExistingKeys)
    IN  [i \in 1..Len(left) |->
            [type |-> "archive", existingId |-> left[i].value.id, data |-> left[i].value.data]]

\* whether reconcile throws: makeKey of a row (the row then stands in deduped
\* under the key RangeError), or computeDiffs of a matched pair
ReconcileThrows(deduped, existingMap) ==
    \/ \E i \in 1..Len(deduped) : deduped[i].key = RangeError
    \/ \E i \in 1..Len(deduped) :
           /\ MapHas(existingMap, deduped[i].key)
           /\ DiffsThrow(MapGet(existingMap, deduped[i].key).data, deduped[i].value)

reconcile(rows, showtimes) ==
    LET deduped == Dedupe(CleanedRows(rows), <<>>)
        existingMap == BuildExistingMap(showtimes, <<>>)
        matchedExistingKeys == MapKeys(deduped) \cap MapKeys(existingMap)
        actions == Actions(deduped, existingMap)
    IN  IF ReconcileThrows(deduped, existingMap) THEN [threw |-> TRUE, error |-> RangeError]
        ELSE [threw |-> FALSE,
              adds |-> SelectSeq(actions, LAMBDA a : a.type = "add"),
              updates |-> SelectSeq(actions, LAMBDA a : a.type = "update"),
              archives |-> Archives(existingMap, matchedExistingKeys)]

(***************************************************************************)
(* Inputs of the normalizer.                                               *)
(***************************************************************************)
TitleAlphabet == {"t", "w", "o", "T", "2", " ", ":"}

RECURSIVE TitlesUpTo(_)
TitlesUpTo(n) ==
    IF n = 0 THEN {""}
    ELSE TitlesUpTo(n - 1) \cup {s \o c : s \in TitlesUpTo(n - 1), c \in TitleAlphabet}

SampleTitles ==
    {"Dune: Part Two", "DUNE PART 2", "Spider-Man: Homecoming", "Spider Man - Homecoming",
     "Spiderman", "Spider-Man", "Inside Out 2", "Wonka", "  Wonka\t", "Oppenheimer",
     "Ocean's Eleven", "Ten", "one two three four five six seven eight nine ten",
     "...", "snake_case", "The Constructor", "constructor", "__proto__"}

Titles == TitlesUpTo(MaxTitleLen) \cup SampleTitles

(***************************************************************************)
(* seed/route.ts: the sample showtimes.                                    *)
(***************************************************************************)
SeedShowtime(movieTitle, auditorium, startTime, endTime, format, rating) ==
    [theaterName |-> "Downtown Cinema 7",
     movieTitle  |-> movieTitle,
     auditorium  |-> auditorium,
     startTime   |-> NewDate(startTime),
     endTime     |-> NewDate(endTime),
     language    |-> "EN",
     format      |-> format,
     rating      |-> rating,
     lastUpdated |-> NewDate("2025-03-10T12:00:00Z"),
     status      |-> "active"]

seedData ==
    <<SeedShowtime("Spider-Man: Homecoming", "Auditorium 1", "2025-03-15T18:00:00Z",
                   "2025-03-15T20:13:00Z", "2D", "PG-13"),
      SeedShowtime("Inside Out 2", "Auditorium 2", "2025-03-15T17:30:00Z",
                   "2025-03-15T19:20:00Z", "3D", "PG"),
      SeedShowtime("Dune: Part Two", "Auditorium 1", "2025-03-15T20:00:00Z",
                   "2025-03-15T22:46:00Z", "2D", "PG-13"),
      SeedShowtime("Dune: Part Two", "Auditorium 1", "2025-03-15T22:45:00Z",
                   "2025-03-16T01:31:00Z", "2D", "PG-13"),
      SeedShowtime("Wonka", "Auditorium 3", "2025-03-15T16:00:00Z",
                   "2025-03-15T17:56:00Z", "2D", "PG"),
      SeedShowtime("Oppenheimer", "Auditorium 4", "2025-03-15T21:00:00Z",
                   "2025-03-16T00:00:00Z", "IMAX", "PG-13")>>

\* a stored row: the fields plus the identifier the table assigned
WithId(fields, id) == [f \in DOMAIN fields \cup {"id"} |-> IF f = "id" THEN id ELSE fields[f]]

(***************************************************************************)
(* The showtime table (prisma.showtime).                                   *)
(***************************************************************************)
\* the identifiers of the table, in ascending or descending order
RECURSIVE IdsInOrder(_, _)
IdsInOrder(ids, order) ==
    IF ids = {} THEN <<>>
    ELSE LET first == IF order = "asc"
                      THEN CHOOSE i \in ids : \A j \in ids : i <= j
                      ELSE CHOOSE i \in ids : \A j \in ids : i >= j
         IN  <<first>> \o IdsInOrder(ids \ {first}, order)

\* findMany({ where: { status: "active" } }): no orderBy, so the order is the
\* database's; an order by identifier stands for it
FindManyActive(table, order) ==
    LET ids == IdsInOrder({i \in DOMAIN table : table[i].status = "active"}, order)
    IN  [k \in 1..Len(ids) |-> table[ids[k]]]

\* the columns create and update write from a preview entry's data
Written(data) ==
    [theaterName |-> data.theaterName,
     movieTitle  |-> data.movieTitle,
     auditorium  |-> data.auditorium,
     startTime   |-> NewDate(data.startTime),
     endTime     |-> NewDate(data.endTime),
     language    |-> data.language,
     format      |-> data.format,
     rating      |-> data.rating,
     lastUpdated |-> NewDate(data.lastUpdated)]

\* the client rejects an Invalid Date before it reaches the database
DatesValid(data) ==
    \A f \in {"startTime", "endTime", "lastUpdated"} : NewDate(data[f]).time # "NaN"

\* One operation of the transaction on its working copy tx = [table, nextId, error].
\* tx.showtime.create
Create(tx, add) ==
    IF ~DatesValid(add.data) THEN [tx EXCEPT !.error = "PrismaClientValidationError"]
    ELSE LET written == Written(add.data)
         IN  [tx EXCEPT
                !.table = tx.table @@ (tx.nextId :>
                    [f \in DOMAIN written \cup {"id", "status"} |->
                        IF f = "id" THEN tx.nextId
                        ELSE IF f = "status" THEN "active"
                        ELSE written[f]]),
                !.nextId = tx.nextId + 1]

\* mutant of Update: the update sets the status to active as the create does
UpdateSettingActive(tx, update) ==
    IF ~DatesValid(update.data) THEN [tx EXCEPT !.error = "PrismaClientValidationError"]
    ELSE IF update.existingId \notin DOMAIN tx.table THEN [tx EXCEPT !.error = "P2025"]
    ELSE LET written == Written(update.data)
         IN  [tx EXCEPT
                !.table[update.existingId] =
                    [f \in DOMAIN @ |->
                        IF f \in DOMAIN written THEN written[f]
                        ELSE IF f = "status" THEN "active" ELSE @[f]]]

\* mutant of Update: the update writes every column but the title
UpdateKeepingTitle(tx, update) ==
    IF ~DatesValid(update.data) THEN [tx EXCEPT !.error = "PrismaClientValidationError"]
    ELSE IF update.existingId \notin DOMAIN tx.table THEN [tx EXCEPT !.error = "P2025"]
    ELSE LET written == Written(update.data)
         IN  [tx EXCEPT
                !.table[update.existingId] =
                    [f \in DOMAIN @ |->
                        IF f \in DOMAIN written \ {"movieTitle"} THEN written[f] ELSE @[f]]]

\* tx.showtime.update({ where: { id }, data }) of an Update entry
Update(tx, update) ==
    IF ~DatesValid(update.data) THEN [tx EXCEPT !.error = "PrismaClientValidationError"]
    ELSE IF update.existingId \notin DOMAIN tx.table THEN [tx EXCEPT !.error = "P2025"]
    ELSE LET written == Written(update.data)
         IN  [tx EXCEPT
                !.table[update.existingId] =
                    [f \in DOMAIN @ |-> IF f \in DOMAIN written THEN written[f] ELSE @[f]]]

\* mutant of Archive: the row is deleted instead of flagged
ArchiveByDelete(tx, archive) ==
    IF archive.existingId \notin DOMAIN tx.table THEN [tx EXCEPT !.error = "P2025"]
    ELSE [tx EXCEPT !.table = [i \in DOMAIN tx.table \ {archive.existingId} |-> tx.table[i]]]

\* mutant of Archive: the where clause selects by status, so every active
\* record is archived (updateMany)
ArchiveEveryActive(tx, archive) ==
    IF archive.existingId \notin DOMAIN tx.table THEN [tx EXCEPT !.error = "P2025"]
    ELSE [tx EXCEPT !.table = [i \in DOMAIN tx.table |->
                                  [tx.table[i] EXCEPT !.status = "archived"]]]

\* tx.showtime.update({ where: { id }, data: { status: "archived" } })
Archive(tx, archive) ==
    IF archive.existingId \notin DOMAIN tx.table THEN [tx EXCEPT !.error = "P2025"]
    ELSE [tx EXCEPT !.table[archive.existingId].status = "archived"]

Operation(tx, op) ==
    CASE op.type = "add" -> Create(tx, op)
      [] op.type = "update" -> Update(tx, op)
      [] op.type = "archive" -> Archive(tx, op)

\* the body of the transaction callback: the creates, the updates, the archives,
\* each awaited; the first that throws ends it.  fault = k makes the database
\* fail operation k (a lost connection, a timeout); fault = 0 is no such failure.
RECURSIVE RunOperations(_, _, _, _)
RunOperations(ops, k, tx, fault) ==
    IF k > Len(ops) \/ tx.error # "" THEN tx
    ELSE IF k = fault THEN [tx EXCEPT !.error = "DatabaseError"]
    ELSE RunOperations(ops, k + 1, Operation(tx, ops[k]), fault)

\* mutant of Transaction: the operations run without a transaction, so what
\* ran before the failure stays
WithoutTransaction(body, table, id, fault) ==
    RunOperations(body.adds \o body.updates \o body.archives, 1,
                  [table |-> table, nextId |-> id, error |-> ""], fault)

\* mutant of Transaction: an update or archive of a missing row is skipped
\* instead of failing the batch (updateMany semantics)
SkippingMissingRows(body, table, id, fault) ==
    LET present(op) == op.type = "add" \/ op.existingId \in DOMAIN table
        done == RunOperations(SelectSeq(body.adds \o body.updates \o body.archives, present), 1,
                              [table |-> table, nextId |-> id, error |-> ""], fault)
    IN  IF done.error = "" THEN done ELSE [table |-> table, nextId |-> id, error |-> done.error]

\* prisma.$transaction: commit when the callback returns, roll back when it throws
Transaction(body, table, id, fault) ==
    LET done == RunOperations(body.adds \o body.updates \o body.archives, 1,
                              [table |-> table, nextId |-> id, error |-> ""], fault)
    IN  IF done.error = "" THEN done
        ELSE [table |-> table, nextId |-> id, error |-> done.error]

\* POST /api/showtimes/apply: the response status with the table it leaves
TotalChanges(body) == Len(body.adds) + Len(body.updates) + Len(body.archives)

ApplyStatus(error) == IF error = "" THEN 200 ELSE IF error = "P2025" THEN 409 ELSE 500

applyPOST(body, table, id, fault) ==
    IF TotalChanges(body) = 0 THEN [status |-> 200, table |-> table, nextId |-> id]
    ELSE LET done == Transaction(body, table, id, fault)
         IN  [status |-> ApplyStatus(done.error), table |-> done.table, nextId |-> done.nextId]

\* A parsed CSV: the header's columns and the data rows.
REQUIRED_COLUMNS == {"movie_title", "start_time"}

\* POST /api/showtimes/upload, from the parsed CSV on
uploadPOST(csv, table, order) ==
    IF ~(REQUIRED_COLUMNS \subseteq csv.fields) THEN [status |-> 400]
    ELSE IF Len(csv.data) = 0 THEN [status |-> 400]
    ELSE LET r == reconcile(csv.data, FindManyActive(table, order))
         IN  IF r.threw THEN [status |-> 500]
             ELSE [status |-> 200,
                   data |-> [adds |-> r.adds, updates |-> r.updates, archives |-> r.archives]]

\* history: the rows a preview's updates and archives refer to, as the upload read them
Referenced(body) ==
    {body.updates[i].existingId : i \in 1..Len(body.updates)}
    \cup {body.archives[i].existingId : i \in 1..Len(body.archives)}

Snapshot(response, table) ==
    IF response.status = 200
    THEN [i \in Referenced(response.data) |-> table[i]]
    ELSE <<>>

(***************************************************************************)
(* Inputs of reconcile.                                                    *)
(***************************************************************************)
\* the CSV row that repeats a stored showtime field for field
RowOf(s) ==
    [theater_name |-> s.theaterName, movie_title |-> s.movieTitle, auditorium |-> s.auditorium,
     start_time |-> SubSeq(s.startTime.time, 1, 19) \o "Z",
     end_time |-> SubSeq(s.endTime.time, 1, 19) \o "Z",
     language |-> s.language, format |-> s.format, rating |-> s.rating,
     last_updated |-> SubSeq(s.lastUpdated.time, 1, 19) \o "Z"]

DuneRow == RowOf(seedData[3])

BarbieRow ==
    [theater_name |-> "Downtown Cinema 7", movie_title |-> "Barbie", auditorium |-> "Auditorium 2",
     start_time |-> "2025-03-15T19:00:00Z", end_time |-> "2025-03-15T20:54:00Z",
     language |-> "EN", format |-> "2D", rating |-> "PG-13",
     last_updated |-> "2025-03-12T09:00:00Z"]

RowPool ==
    {\* the stored Dune showtime under the partner's spelling of the title
     [DuneRow EXCEPT !.movie_title = "DUNE PART 2"],
     \* the stored Dune showtime, its end time in another textual form
     [DuneRow EXCEPT !.end_time = "2025-03-15T22:46:00+00:00"],
     \* the stored Dune showtime moved to another auditorium
     [DuneRow EXCEPT !.auditorium = "Auditorium 5"],
     \* the stored Dune showtime ending later
     [DuneRow EXCEPT !.end_time = "2025-03-15T23:00:00Z"],
     \* a showtime the schedule does not have, and the same key again with another rating
     BarbieRow,
     [BarbieRow EXCEPT !.movie_title = "BARBIE", !.rating = "PG"],
     \* only the required columns: the other columns absent, or present and empty
     [movie_title |-> "Dune: Part Two", start_time |-> "2025-03-15T20:00:00Z"],
     [theater_name |-> "", movie_title |-> "Barbie", auditorium |-> "",
      start_time |-> "2025-03-15T19:00:00Z", end_time |-> "", language |-> "", format |-> "",
      rating |-> "", last_updated |-> ""],
     \* a required column missing after trim
     [BarbieRow EXCEPT !.movie_title = "   "],
     \* the title of a stored showtime and a start time of spaces
     [DuneRow EXCEPT !.start_time = " "],
     \* a start time that is no date
     [BarbieRow EXCEPT !.start_time = "soon"],
     \* padded with spaces
     [RowOf(seedData[5]) EXCEPT !.movie_title = "  Wonka ", !.rating = " PG"]}

ExistingPool ==
    {WithId(seedData[3], 1),
     WithId(seedData[5], 2),
     \* a second active showtime with the key of the first
     WithId([seedData[3] EXCEPT !.movieTitle = "Dune - Part 2", !.auditorium = "Auditorium 6"], 3)}

RECURSIVE SeqsUpTo(_, _)
SeqsUpTo(S, n) ==
    IF n = 0 THEN {<<>>}
    ELSE SeqsUpTo(S, n - 1) \cup {Append(q, x) : q \in SeqsUpTo(S, n - 1), x \in S}

RowBatches == SeqsUpTo(RowPool, MaxRows)

\* findMany returns each row once
ExistingBatches ==
    {q \in SeqsUpTo(ExistingPool, MaxExisting) :
        \A i, j \in 1..Len(q) : i # j => q[i].id # q[j].id}

(***************************************************************************)
(* SpecNormalize: normalizeTitle applied to a title, then to its own       *)
(* result.                                                                 *)
(***************************************************************************)
NoCall == csvRows = <<>> /\ existingShowtimes = <<>> /\ result = <<>>

Clients == {"page", "api"}

\* the system as deployed: an empty table, the page just mounted, nothing in flight
InitSystem ==
    /\ showtimeTable = <<>>
    /\ nextId = 1
    /\ preview = <<>>
    /\ uploading = FALSE
    /\ applying = FALSE
    /\ call = <<>>
    /\ held = <<>>
    /\ seeding = 0
    /\ assumed = [c \in Clients |-> <<>>]
    /\ commits = 0
    /\ interval = TRUE
    /\ polls = 0

InitNormalize == title \in Titles /\ out = <<>> /\ NoCall /\ InitSystem

Normalize ==
    /\ Len(out) < 2
    /\ out' = Append(out, normalizeTitle(IF out = <<>> THEN title ELSE out[Len(out)]))
    /\ UNCHANGED <<title, csvRows, existingShowtimes, result>>
    /\ UNCHANGED systemVars

NextNormalize == Normalize

SpecNormalize == InitNormalize /\ [][NextNormalize]_vars

(***************************************************************************)
(* SpecReconcile: one call of reconcile on enumerated inputs.              *)
(***************************************************************************)
InitReconcile ==
    /\ csvRows \in RowBatches
    /\ existingShowtimes \in ExistingBatches
    /\ result = <<>>
    /\ title = "" /\ out = <<>>
    /\ InitSystem

Reconcile ==
    /\ result = <<>>
    /\ result' = <<reconcile(csvRows, existingShowtimes)>>
    /\ UNCHANGED <<title, out, csvRows, existingShowtimes>>
    /\ UNCHANGED systemVars

NextReconcile == Reconcile

SpecReconcile == InitReconcile /\ [][NextReconcile]_vars

Returned == result # <<>> /\ ~result[1].threw

(***************************************************************************)
(* SpecDiff: one call of computeDiffs on the canonical records of two CSV  *)
(* rows (the same row twice included).                                     *)
(***************************************************************************)
\* what a call of computeDiffs gives: the diffs, or the RangeError it throws
computeDiffsCall(existing, incoming) ==
    IF DiffsThrow(existing, incoming) THEN [threw |-> TRUE, error |-> RangeError]
    ELSE [threw |-> FALSE, diffs |-> computeDiffs(existing, incoming)]

InitDiff ==
    /\ csvRows \in {b \in SeqsUpTo(RowPool, 2) : Len(b) = 2}
    /\ existingShowtimes = <<>>
    /\ result = <<>>
    /\ title = "" /\ out = <<>>
    /\ InitSystem

Diff ==
    /\ result = <<>>
    /\ result' = <<computeDiffsCall(csvRowToShowtimeData(csvRows[1]),
                                    csvRowToShowtimeData(csvRows[2]))>>
    /\ UNCHANGED <<title, out, csvRows, existingShowtimes>>
    /\ UNCHANGED systemVars

NextDiff == Diff

SpecDiff == InitDiff /\ [][NextDiff]_vars

(***************************************************************************)
(* Spec: the table, the page (page.tsx with PreviewModal) and an API       *)
(* caller of the same endpoints, which keeps the preview it got and may    *)
(* post it at any time.                                                    *)
(***************************************************************************)
AllColumns ==
    {"theater_name", "movie_title", "auditorium", "start_time", "end_time", "language",
     "format", "rating", "last_updated"}

\* the parsed CSV files a client uploads
Csvs ==
    {\* Dune moved to another auditorium under the partner's spelling, and a new showtime
     [fields |-> AllColumns,
      data |-> <<[DuneRow EXCEPT !.movie_title = "DUNE PART 2", !.auditorium = "Auditorium 5"],
                 BarbieRow>>],
     \* only the required columns
     [fields |-> REQUIRED_COLUMNS,
      data |-> <<[movie_title |-> "Barbie", start_time |-> "2025-03-15T19:00:00Z"]>>],
     \* a header and no data row
     [fields |-> AllColumns, data |-> <<>>]}

Sent(route) == call # <<>> /\ call[1].route = route /\ call[1].phase = "sent"

Answered(route) == call # <<>> /\ call[1].route = route /\ call[1].phase = "answered"

\* the exchange once the server has answered; read is history
Answer(route, response, read) ==
    <<[route |-> route, phase |-> "answered", response |-> response, read |-> read]>>

\* handleUpload, to the fetch.  The file input is disabled while uploading,
\* and the modal (fixed inset-0) covers the page while a preview is shown.
PageUpload(csv) ==
    /\ ~uploading /\ preview = <<>> /\ call = <<>>
    /\ uploading' = TRUE
    /\ call' = <<[route |-> "upload", phase |-> "sent", body |-> csv]>>
    /\ UNCHANGED <<showtimeTable, nextId, preview, applying, held, seeding, assumed, commits>>
    /\ UNCHANGED pureVars
    /\ UNCHANGED pollVars

\* mutant of ServeUpload: the upload route applies the preview it has computed
ServeUploadApplying(order) ==
    /\ Sent("upload")
    /\ UNCHANGED <<preview, uploading, applying, held, seeding, assumed, commits>>
    /\ UNCHANGED pureVars
    /\ UNCHANGED pollVars
    /\ LET response == uploadPOST(call[1].body, showtimeTable, order)
           done == IF response.status = 200
                   THEN applyPOST(response.data, showtimeTable, nextId, 0)
                   ELSE [status |-> 200, table |-> showtimeTable, nextId |-> nextId]
       IN  /\ done.nextId <= MaxId + 1
           /\ call' = Answer("upload", response, Snapshot(response, showtimeTable))
           /\ showtimeTable' = done.table
           /\ nextId' = done.nextId

\* the upload route handling the page's request
ServeUpload(order) ==
    /\ Sent("upload")
    /\ UNCHANGED <<showtimeTable, nextId, preview, uploading, applying, held, seeding, assumed,
                   commits>>
    /\ UNCHANGED pureVars
    /\ UNCHANGED pollVars
    /\ LET response == uploadPOST(call[1].body, showtimeTable, order)
       IN  call' = Answer("upload", response, Snapshot(response, showtimeTable))

\* mutant of PollEffect: preview is not among the effect's dependencies, so the
\* effect runs at the mount only
PollEffectAtMountOnly == UNCHANGED pollVars

\* The polling effect (dependencies fetchShowtimes and preview) after the render
\* that commits a new preview state: its cleanup clears the interval, and its
\* body sets one unless a preview is held.
PollEffect ==
    /\ interval' = (preview' = <<>>)
    /\ polls' = polls

\* handleUpload, from the response on: setPreview(data) or the error toast
PageUploadResponse ==
    /\ Answered("upload")
    /\ IF call[1].response.status = 200
       THEN /\ preview' = <<call[1].response.data>>
            /\ assumed' = [assumed EXCEPT !["page"] = call[1].read]
            /\ commits' = 0
       ELSE UNCHANGED <<preview, assumed, commits>>
    /\ uploading' = FALSE
    /\ call' = <<>>
    /\ UNCHANGED <<showtimeTable, nextId, applying, held, seeding>>
    /\ UNCHANGED pureVars
    /\ PollEffect

\* mutant of ApplyEnabled: the Apply button is not disabled while applying
ApplyEnabledWhileApplying == preview # <<>> /\ TotalChanges(preview[1]) > 0

\* the Apply button: rendered when the preview has changes, disabled while applying
ApplyEnabled == preview # <<>> /\ TotalChanges(preview[1]) > 0 /\ ~applying

\* handleApply, to the fetch
PageApply ==
    /\ ApplyEnabled
    /\ applying' = TRUE
    /\ call' = <<[route |-> "apply", phase |-> "sent", body |-> preview[1]]>>
    /\ UNCHANGED <<showtimeTable, nextId, preview, uploading, held, seeding, assumed, commits>>
    /\ UNCHANGED pureVars
    /\ UNCHANGED pollVars

\* the apply route handling the page's request
ServeApply(fault) ==
    /\ Sent("apply")
    /\ UNCHANGED <<preview, uploading, applying, held, seeding, assumed>>
    /\ UNCHANGED pureVars
    /\ UNCHANGED pollVars
    /\ LET done == applyPOST(call[1].body, showtimeTable, nextId, fault)
       IN  /\ done.nextId <= MaxId + 1
           /\ showtimeTable' = done.table
           /\ nextId' = done.nextId
           /\ call' = Answer("apply", [status |-> done.status], <<>>)
           /\ commits' = IF done.status = 200 THEN commits + 1 ELSE commits

\* handleApply, from the response on: setPreview(null) on success
PageApplyResponse ==
    /\ Answered("apply")
    /\ preview' = IF call[1].response.status = 200 THEN <<>> ELSE preview
    /\ applying' = FALSE
    /\ call' = <<>>
    /\ UNCHANGED <<showtimeTable, nextId, uploading, held, seeding, assumed, commits>>
    /\ UNCHANGED pureVars
    /\ PollEffect

\* onCancel; the Cancel button is disabled while applying
PageCancel ==
    /\ preview # <<>> /\ ~applying
    /\ preview' = <<>>
    /\ UNCHANGED <<showtimeTable, nextId, uploading, applying, call, held, seeding, assumed,
                   commits>>
    /\ UNCHANGED pureVars
    /\ PollEffect

\* an API caller posts a CSV to the upload route and keeps the preview it is sent
ApiUpload(csv, order) ==
    /\ held = <<>>
    /\ UNCHANGED <<showtimeTable, nextId, preview, uploading, applying, call, seeding, commits>>
    /\ UNCHANGED pureVars
    /\ UNCHANGED pollVars
    /\ LET response == uploadPOST(csv, showtimeTable, order)
       IN  IF response.status = 200
           THEN /\ held' = <<response.data>>
                /\ assumed' = [assumed EXCEPT !["api"] = Snapshot(response, showtimeTable)]
           ELSE UNCHANGED <<held, assumed>>

\* an API caller posts the preview it holds to the apply route
ApiApply(fault) ==
    /\ held # <<>>
    /\ UNCHANGED <<preview, uploading, applying, call, held, seeding, assumed, commits>>
    /\ UNCHANGED pureVars
    /\ UNCHANGED pollVars
    /\ LET done == applyPOST(held[1], showtimeTable, nextId, fault)
       IN  /\ done.nextId <= MaxId + 1
           /\ showtimeTable' = done.table
           /\ nextId' = done.nextId

\* POST /api/showtimes/seed, first await: deleteMany({}); at most running
\* seed requests are between their two awaits
SeedDeleteAmong(running) ==
    /\ seeding < running
    /\ showtimeTable' = <<>>
    /\ seeding' = seeding + 1
    /\ UNCHANGED <<nextId, preview, uploading, applying, call, held, assumed, commits>>
    /\ UNCHANGED pureVars
    /\ UNCHANGED pollVars

SeedDelete == SeedDeleteAmong(MaxSeeding)

\* POST /api/showtimes/seed, second await: createMany({ data: seedData });
\* the table hands out no identifier above last
SeedCreateUpTo(last) ==
    /\ seeding > 0
    /\ nextId + Len(seedData) <= last + 1
    /\ showtimeTable' =
           [i \in DOMAIN showtimeTable \cup (nextId..(nextId + Len(seedData) - 1)) |->
               IF i \in DOMAIN showtimeTable THEN showtimeTable[i]
               ELSE WithId(seedData[i - nextId + 1], i)]
    /\ nextId' = nextId + Len(seedData)
    /\ seeding' = seeding - 1
    /\ UNCHANGED <<preview, uploading, applying, call, held, assumed, commits>>
    /\ UNCHANGED pureVars
    /\ UNCHANGED pollVars

SeedCreate == SeedCreateUpTo(MaxId)

\* POST /api/showtimes/clear: deleteMany({})
Clear ==
    /\ showtimeTable # <<>>
    /\ showtimeTable' = <<>>
    /\ UNCHANGED <<nextId, preview, uploading, applying, call, held, seeding, assumed, commits>>
    /\ UNCHANGED pureVars
    /\ UNCHANGED pollVars

\* the orders the routes read in: rows come back in insertion order
Orders == {"asc"}

Next ==
    \/ \E csv \in Csvs : PageUpload(csv)
    \/ \E order \in Orders : ServeUpload(order)
    \/ PageUploadResponse
    \/ PageApply
    \/ \E fault \in 0..MaxFault : ServeApply(fault)
    \/ PageApplyResponse
    \/ PageCancel
    \/ \E csv \in Csvs, order \in Orders : ApiUpload(csv, order)
    \/ \E fault \in 0..MaxFault : ApiApply(fault)
    \/ SeedDelete
    \/ SeedCreate
    \/ Clear

Init == InitSystem /\ title = "" /\ out = <<>> /\ NoCall

Spec == Init /\ [][Next]_vars

(***************************************************************************)
(* SpecSession: API callers of the upload and apply routes, one request at *)
(* a time.  They keep every preview they are sent and may post any of them *)
(* to the apply route at any time, any number of times.                    *)
(***************************************************************************)
\* most previews the callers keep
MaxHeld == 2

SessionCsvs ==
    Csvs \cup
    {\* a new showtime, and a row whose start time is no date
     [fields |-> AllColumns, data |-> <<BarbieRow, [DuneRow EXCEPT !.start_time = "soon"]>>],
     \* one row, and it has no title
     [fields |-> AllColumns, data |-> <<[DuneRow EXCEPT !.movie_title = ""]>>]}

\* the exchange a caller has completed last; body and read are history
Exchange(route, body, response, read) ==
    <<[route |-> route, phase |-> "answered", body |-> body, response |-> response,
       read |-> read]>>

\* a caller posts a CSV to the upload route and keeps the preview it is sent
SessionUpload(csv, order) ==
    /\ Len(held) < MaxHeld
    /\ UNCHANGED <<showtimeTable, nextId, preview, uploading, applying, seeding, assumed, commits>>
    /\ UNCHANGED pureVars
    /\ UNCHANGED pollVars
    /\ LET response == uploadPOST(csv, showtimeTable, order)
       IN  /\ call' = Exchange("upload", csv, response, showtimeTable)
           /\ held' = IF response.status = 200 THEN Append(held, response.data) ELSE held

\* a caller posts one of the previews it holds to the apply route
SessionApply(i, fault) ==
    /\ i \in 1..Len(held)
    /\ UNCHANGED <<preview, uploading, applying, held, seeding, assumed, commits>>
    /\ UNCHANGED pureVars
    /\ UNCHANGED pollVars
    /\ LET done == applyPOST(held[i], showtimeTable, nextId, fault)
       IN  /\ done.nextId <= MaxId + 1
           /\ showtimeTable' = done.table
           /\ nextId' = done.nextId
           /\ call' = Exchange("apply", held[i], [status |-> done.status], showtimeTable)

\* a seed request, with no other request between its two awaits
Seed ==
    /\ nextId + Len(seedData) <= MaxId + 1
    /\ showtimeTable' = [i \in nextId..(nextId + Len(seedData) - 1) |->
                            WithId(seedData[i - nextId + 1], i)]
    /\ nextId' = nextId + Len(seedData)
    /\ UNCHANGED <<preview, uploading, applying, call, held, seeding, assumed, commits>>
    /\ UNCHANGED pureVars
    /\ UNCHANGED pollVars

NextSession ==
    \/ \E csv \in SessionCsvs, order \in Orders : SessionUpload(csv, order)
    \/ \E i \in 1..MaxHeld, fault \in 0..MaxFault : SessionApply(i, fault)
    \/ Seed

SpecSession == Init /\ [][NextSession]_vars

(***************************************************************************)
(* SpecPoll: the page alone with its polling timer.                        *)
(***************************************************************************)
\* fetches the polling timer starts before the model stops counting them
MaxPolls == 2

\* the setInterval callback: fetchShowtimes
PollTick ==
    /\ interval
    /\ polls < MaxPolls
    /\ polls' = polls + 1
    /\ UNCHANGED <<showtimeTable, nextId, preview, uploading, applying, call, held, seeding,
                   assumed, commits, interval>>
    /\ UNCHANGED pureVars

NextPoll ==
    \/ \E csv \in Csvs : PageUpload(csv)
    \/ \E order \in Orders : ServeUpload(order)
    \/ PageUploadResponse
    \/ PageApply
    \/ \E fault \in 0..MaxFault : ServeApply(fault)
    \/ PageApplyResponse
    \/ PageCancel
    \/ PollTick
    \/ Seed

SpecPoll == Init /\ [][NextPoll]_vars

(***************************************************************************)
(* SpecRound: one caller uploads a batch, applies the preview it is sent   *)
(* and uploads the same batch again, with no other request in between; the *)
(* batch and the table it meets are enumerated.                            *)
(***************************************************************************)
\* the table that holds the showtimes of S
TableOf(S) == [i \in {s.id : s \in S} |-> CHOOSE s \in S : s.id = i]

InitRound ==
    /\ csvRows \in RowBatches
    /\ \E S \in SUBSET ExistingPool :
          /\ showtimeTable = TableOf(S)
          /\ existingShowtimes = FindManyActive(showtimeTable, "asc")
    /\ nextId = Cardinality(ExistingPool) + 1
    /\ result = <<>>
    /\ title = "" /\ out = <<>>
    /\ preview = <<>> /\ uploading = FALSE /\ applying = FALSE /\ call = <<>> /\ held = <<>>
    /\ seeding = 0 /\ assumed = [c \in Clients |-> <<>>] /\ commits = 0
    /\ interval = TRUE /\ polls = 0

\* the upload route from the reconciliation on: the first upload, and the
\* second once the apply has been answered
RoundUpload ==
    /\ \/ result = <<>>
       \/ Len(result) = 1 /\ call # <<>>
    /\ existingShowtimes' = FindManyActive(showtimeTable, "asc")
    /\ result' = Append(result, reconcile(csvRows, existingShowtimes'))
    /\ UNCHANGED <<title, out, csvRows>>
    /\ UNCHANGED systemVars

\* the apply route on the preview of the first upload
RoundApply(fault) ==
    /\ Len(result) = 1 /\ ~result[1].threw /\ call = <<>>
    /\ LET body == [adds |-> result[1].adds, updates |-> result[1].updates,
                    archives |-> result[1].archives]
           done == applyPOST(body, showtimeTable, nextId, fault)
       IN  /\ showtimeTable' = done.table
           /\ nextId' = done.nextId
           /\ call' = Exchange("apply", body, [status |-> done.status], showtimeTable)
    /\ UNCHANGED <<preview, uploading, applying, held, seeding, assumed, commits>>
    /\ UNCHANGED pollVars
    /\ UNCHANGED pureVars

NextRound ==
    \/ RoundUpload
    \/ \E fault \in 0..MaxFault : RoundApply(fault)

SpecRound == InitRound /\ [][NextRound]_vars

(***************************************************************************)
(* SpecSeed: seed requests, several of them running at the same time.      *)
(***************************************************************************)
\* most seed requests between their two awaits at the same time
MaxSeedRequests == 4
\* seed requests served before the model stops
MaxSeeds == 9

NextSeed ==
    \/ SeedDeleteAmong(MaxSeedRequests)
    \/ SeedCreateUpTo(MaxSeeds * Len(seedData))

SpecSeed == Init /\ [][NextSeed]_vars

(***************************************************************************)
(* Claims about the upload route, the apply route and the page.            *)
(***************************************************************************)
\* a step in which the upload route handles a request
Uploads ==
    \/ \E order \in Orders : ServeUpload(order)
    \/ \E csv \in Csvs, order \in Orders : ApiUpload(csv, order)

\* a step in which the apply route handles a request
Applies == \E fault \in 0..MaxFault : ServeApply(fault) \/ ApiApply(fault)

\* C1: a step in which the upload route handles a request, answered with a
\* preview or with an error, leaves every stored record as it was; between a
\* client's upload and its apply the table changes only in a step of the apply
\* route or of the seed and clear routes.
C1_UploadLeavesStore ==
    [][/\ Uploads => showtimeTable' = showtimeTable
       /\ showtimeTable' # showtimeTable => SeedDelete \/ SeedCreate \/ Clear \/ Applies]_vars

\* the upload route has answered the page with a preview of changes to a
\* table that holds records
C1_Witness ==
    /\ Answered("upload")
    /\ call[1].response.status = 200
    /\ TotalChanges(call[1].response.data) > 0
    /\ showtimeTable # <<>>

\* what a committed apply of body shows: every add created under a fresh
\* identifier, every update written, every archive archived, the rest untouched
Committed(body, before, id, after) ==
    /\ \A i \in 1..Len(body.adds) :
          LET written == Written(body.adds[i].data)
          IN  /\ (id + i - 1) \in DOMAIN after
              /\ after[id + i - 1].status = "active"
              /\ \A f \in DOMAIN written : after[id + i - 1][f] = written[f]
    /\ \A i \in 1..Len(body.updates) :
          LET written == Written(body.updates[i].data)
          IN  \A f \in DOMAIN written : after[body.updates[i].existingId][f] = written[f]
    /\ \A i \in 1..Len(body.archives) : after[body.archives[i].existingId].status = "archived"
    /\ \A i \in DOMAIN before \ Referenced(body) : after[i] = before[i]

AllOrNothing(body, status) ==
    IF status = 200
    THEN Committed(body, showtimeTable, nextId, showtimeTable')
    ELSE showtimeTable' = showtimeTable

\* C2: an apply that is answered with a failure leaves the table as it was
\* before the apply, whichever operation failed; an apply that is answered
\* with success shows all of the preview's adds, updates and archives.
C2_ApplyAllOrNothing ==
    [][\A fault \in 0..MaxFault :
          /\ ServeApply(fault) => AllOrNothing(call[1].body, call'[1].response.status)
          /\ ApiApply(fault) =>
                AllOrNothing(held[1], applyPOST(held[1], showtimeTable, nextId, fault).status)]_vars

\* an apply whose adds were created in the transaction failed at a later
\* operation
C2_Witness ==
    /\ Answered("apply")
    /\ call[1].response.status = 409
    /\ Len(preview[1].adds) > 0

\* a record the preview's updates or archives refer to is gone from the table
MissingRecord(body) == Referenced(body) \ DOMAIN showtimeTable # {}

\* every date the creates and updates of body write is a valid one
Writable(body) ==
    /\ \A i \in 1..Len(body.adds) : DatesValid(body.adds[i].data)
    /\ \A i \in 1..Len(body.updates) : DatesValid(body.updates[i].data)

FailsWhole(body, fault, status) ==
    MissingRecord(body) =>
        /\ showtimeTable' = showtimeTable
        /\ status \in {409, 500}
        /\ (fault = 0 /\ Writable(body)) => status = 409

ChangedRecord(body, read) ==
    \E i \in Referenced(body) \cap DOMAIN showtimeTable \cap DOMAIN read :
        showtimeTable[i] # read[i]

\* C4: an apply of a preview that refers to a record changed since the preview
\* was made is answered with a failure.
C4_ChangedRecordDetected ==
    [][\A fault \in 0..MaxFault :
          /\ (ServeApply(fault) /\ ChangedRecord(call[1].body, assumed["page"])) =>
                call'[1].response.status # 200
          /\ (ApiApply(fault) /\ ChangedRecord(held[1], assumed["api"])) =>
                applyPOST(held[1], showtimeTable, nextId, fault).status # 200]_vars

ValidRow == [row \in RowPool |-> HasRequired(row)]

DataOfRow == [row \in RowPool |-> csvRowToShowtimeData(row)]

KeyOfData ==
    [data \in {DataOfRow[row] : row \in RowPool}
              \cup {existingToShowtimeData(s) : s \in ExistingPool} |-> RowKey(data)]

KeyOfExisting == [s \in ExistingPool |-> ExistingKey(s)]

KeySeq(actions) == [i \in 1..Len(actions) |-> KeyOfData[actions[i].data]]

Range(q) == {q[i] : i \in 1..Len(q)}

NoRepeat(q) == \A i, j \in 1..Len(q) : i # j => q[i] # q[j]

\* the keys of the rows that enter reconciliation, and of the existing showtimes
IncomingKeys ==
    {KeyOfData[DataOfRow[csvRows[i]]] : i \in {j \in 1..Len(csvRows) : ValidRow[csvRows[j]]}}

ExistingKeys == {KeyOfExisting[existingShowtimes[i]] : i \in 1..Len(existingShowtimes)}

\* the collections a key is in; "noop" is a matched key with no update
BucketsOf(k, r) ==
    {b \in {"adds", "updates", "archives"} : k \in Range(KeySeq(r[b]))}
    \cup (IF k \in IncomingKeys \cap ExistingKeys /\ k \notin Range(KeySeq(r.updates))
          THEN {"noop"} ELSE {})

\* C6: in every preview reconcile returns, each key of the incoming rows or of
\* the existing showtimes is in exactly one of adds, updates, no-op, archives;
\* the collections hold no other key, and no collection holds a key twice.
C6_PartitionComplete ==
    Returned =>
        LET r == result[1]
        IN  /\ \A k \in IncomingKeys \cup ExistingKeys : Cardinality(BucketsOf(k, r)) = 1
            /\ \A b \in {"adds", "updates", "archives"} :
                   /\ NoRepeat(KeySeq(r[b]))
                   /\ Range(KeySeq(r[b])) \subseteq IncomingKeys \cup ExistingKeys

\* a preview with an add, an update and an archive at once
C6_Witness ==
    /\ Returned
    /\ result[1].adds # <<>> /\ result[1].updates # <<>> /\ result[1].archives # <<>>

\* one existing showtime and one valid row of the same key, equal in every
\* field but the raw title
SameButTitle ==
    /\ Len(existingShowtimes) = 1 /\ Len(csvRows) = 1 /\ HasRequired(csvRows[1])
    /\ LET old == existingToShowtimeData(existingShowtimes[1])
           new == csvRowToShowtimeData(csvRows[1])
       IN  /\ normalizeTitle(old.movieTitle) = normalizeTitle(new.movieTitle)
           /\ old.movieTitle # new.movieTitle
           /\ \A f \in {"theaterName", "auditorium", "language", "format", "rating"} :
                  old[f] = new[f]
           /\ \A f \in {"startTime", "endTime", "lastUpdated"} :
                  NewDate(old[f]) = NewDate(new[f]) /\ NewDate(old[f]).time # "NaN"

\* C7 as amended: titles that differ only in what normalization erases match,
\* and the preview has 0 adds, 0 archives and exactly 1 update whose only diff
\* is the raw movie title.
C7_TitleDiffReported ==
    (result # <<>> /\ SameButTitle) =>
        /\ ~result[1].threw
        /\ result[1].adds = <<>> /\ result[1].archives = <<>>
        /\ Len(result[1].updates) = 1
        /\ result[1].updates[1].existingId = existingShowtimes[1].id
        /\ result[1].updates[1].diffs =
               <<[field |-> "movieTitle", oldValue |-> existingShowtimes[1].movieTitle,
                  newValue |-> trim(csvRows[1].movie_title)]>>

\* scenario 1: existing "Dune: Part Two", incoming "DUNE PART 2"
C7_Witness ==
    /\ result # <<>> /\ SameButTitle
    /\ existingShowtimes[1].movieTitle = "Dune: Part Two"
    /\ csvRows[1].movie_title = "DUNE PART 2"

\* C7 as stated: such a pair gives 0 adds, 0 updates and 0 archives.
C7_ExactMatchNoChanges ==
    (result # <<>> /\ SameButTitle) =>
        /\ ~result[1].threw
        /\ result[1].adds = <<>> /\ result[1].updates = <<>> /\ result[1].archives = <<>>

\* a row with title and start time and every other column absent or empty
OnlyRequired(row) ==
    /\ HasRequired(row)
    /\ NewDate(trim(row.start_time)).time # "NaN"
    /\ \A c \in DOMAIN row \ {"movie_title", "start_time"} : row[c] = ""

\* C8: a batch whose rows carry only the required columns gets a preview,
\* whether or not a row matches an existing showtime.
C8_OnlyRequiredColumnsEligible ==
    (result # <<>> /\ csvRows # <<>> /\ \A i \in 1..Len(csvRows) : OnlyRequired(csvRows[i]))
        => ~result[1].threw

\* C10: normalizing a normalized title changes nothing.
C10_NormalizeIdempotent == Len(out) = 2 => out[2] = out[1]

(***************************************************************************)
(* Claims about what normalization equates.                                *)
(***************************************************************************)
UpperOf == [c \in CharsOf(LowerLetters) |-> CharAt(UpperLetters, IndexOf(LowerLetters, c))]

\* the other case of a letter
SwapCase(c) ==
    IF c \in DOMAIN LowerOf THEN LowerOf[c] ELSE IF c \in DOMAIN UpperOf THEN UpperOf[c] ELSE c

IsPunctuation(c) == ~IsWordChar(c) /\ ~IsSpace(c)

\* s with the character at position i replaced by the text r
Splice(s, i, r) == SubSeq(s, 1, i - 1) \o r \o SubSeq(s, i + 1, Len(s))

NumberWord == [d \in {"1", "2", "10"} |-> IF d = "1" THEN "One" ELSE IF d = "2" THEN "two" ELSE "TEN"]

\* the titles that differ from t in the case of one letter, in one punctuation
\* character, in one run of whitespace, or in one number written as a word
Variants(t) ==
    {Splice(t, i, SwapCase(CharAt(t, i))) : i \in 1..Len(t)}
    \cup {Splice(t, i, r) : i \in {j \in 1..Len(t) : IsPunctuation(CharAt(t, j))},
                            r \in {"-", ".", " ", " - ", "!?"}}
    \cup {Splice(t, i, r) : i \in {j \in 1..Len(t) : IsSpace(CharAt(t, j))},
                            r \in {"  ", "\t", " \n "}}
    \cup {join([k \in 1..Len(split(t)) |->
                  IF k = i /\ split(t)[k] \in DOMAIN NumberWord THEN NumberWord[split(t)[k]]
                  ELSE split(t)[k]]) : i \in 1..Len(split(t))}

\* t with one punctuation character that stands between two word characters left out
Joined(t) ==
    {Splice(t, i, "") : i \in {j \in 2..(Len(t) - 1) :
        IsPunctuation(CharAt(t, j)) /\ IsWordChar(CharAt(t, j - 1)) /\ IsWordChar(CharAt(t, j + 1))}}

\* C11: a title and every title that differs from it only in letter case, in
\* punctuation, in runs of whitespace or in a number word for a digit have the
\* same normalized text; a title with the punctuation between two words left
\* out has another one (the two titles of each of the examples included).
C11_NormalizationEquates ==
    out # <<>> =>
        /\ \A u \in Variants(title) : normalizeTitle(u) = out[1]
        /\ \A u \in Joined(title) : normalizeTitle(u) # out[1]
        /\ title = "Spider-Man: Homecoming" => out[1] = normalizeTitle("Spider Man - Homecoming")
        /\ title = "DUNE PART 2" => out[1] = normalizeTitle("Dune: Part Two")
        /\ title = "Spider-Man" => out[1] # normalizeTitle("Spiderman")

\* the hyphenated example has been normalized to two words
C11_Witness == title = "Spider-Man: Homecoming" /\ out = <<"spider man homecoming">>

\* lowercase letters, digits and single spaces, none leading, trailing or doubled
OnlyLowerDigitsSingleSpaces(s) ==
    /\ CharsOf(s) \subseteq CharsOf(LowerLetters) \cup CharsOf(DigitChars) \cup {" "}
    /\ s = "" \/ (CharAt(s, 1) # " " /\ CharAt(s, Len(s)) # " ")
    /\ \A i \in 1..(Len(s) - 1) : ~(CharAt(s, i) = " " /\ CharAt(s, i + 1) = " ")

\* C12: the normalized text of every title contains only lowercase letters,
\* digits and single spaces.
C12_NormalizedAlphabet == out # <<>> => OnlyLowerDigitsSingleSpaces(out[1])

(***************************************************************************)
(* Claims about the steps of reconcile.                                    *)
(***************************************************************************)
\* the positions of the rows with both required fields
ValidRows == {i \in 1..Len(csvRows) : ValidRow[csvRows[i]]}

KeyOfRow(i) == KeyOfData[DataOfRow[csvRows[i]]]

\* the valid rows that no earlier valid row has the key of
FirstRows == {i \in ValidRows : \A j \in ValidRows : j < i => KeyOfRow(j) # KeyOfRow(i)}

\* the batch without the rows at the positions in gone
Without(gone) ==
    LET kept == {i \in 1..Len(csvRows) : i \notin gone}
        pick[n \in 0..Len(csvRows)] ==
            IF n = 0 THEN <<>>
            ELSE IF n \in kept THEN Append(pick[n - 1], csvRows[n]) ELSE pick[n - 1]
    IN  pick[Len(csvRows)]

\* C13: the preview of a batch is the preview of the batch without the rows
\* that repeat the key of an earlier row, and every add and update carries the
\* record of the first row of its key.
C13_DedupKeepsFirst ==
    Returned =>
        /\ result[1] = reconcile(Without(ValidRows \ FirstRows), existingShowtimes)
        /\ \A a \in Range(result[1].adds) \cup Range(result[1].updates) :
              \E i \in FirstRows : a.data = DataOfRow[csvRows[i]]

\* two rows of one key that differ in another field went in, and the preview
\* carries the first
C13_Witness ==
    /\ Returned
    /\ Len(csvRows) = 2 /\ ValidRows = {1, 2} /\ FirstRows = {1}
    /\ csvRowToShowtimeData(csvRows[1]) # csvRowToShowtimeData(csvRows[2])
    /\ \E a \in Range(result[1].adds) \cup Range(result[1].updates) :
          a.data = csvRowToShowtimeData(csvRows[1])

\* C14: no update of a preview has a diff of the field startTime.
C14_NoStartTimeDiff ==
    Returned =>
        \A u \in Range(result[1].updates) : \A d \in Range(u.diffs) : d.field # "startTime"

\* an update whose row writes the start instant otherwise than the stored
\* record prints it
C14_Witness ==
    /\ Returned
    /\ \E u \in Range(result[1].updates) :
          u.data.startTime # toISOString(NewDate(u.data.startTime))

\* C15: the diff of a record with itself is the empty sequence.
C15_DiffReflexive ==
    (result # <<>> /\ csvRows[1] = csvRows[2]) => ~result[1].threw /\ result[1].diffs = <<>>

\* the stored showtime an update or archive refers to, as a canonical record
ExistingData(id) ==
    existingToShowtimeData(
        existingShowtimes[CHOOSE i \in 1..Len(existingShowtimes) : existingShowtimes[i].id = id])

\* one FieldDiff for each field, in the fixed order, whose values differ; the
\* end time and the last update are compared and reported as ISO instants
ExpectedDiffs(old, new) ==
    LET order == <<"theaterName", "movieTitle", "auditorium", "endTime", "language", "format",
                   "rating", "lastUpdated">>
        value(d, f) ==
            IF f \in {"endTime", "lastUpdated"} THEN toISOString(NewDate(d[f])) ELSE d[f]
        differing == SelectSeq(order, LAMBDA f : value(old, f) # value(new, f))
    IN  [i \in 1..Len(differing) |->
            [field |-> differing[i], oldValue |-> value(old, differing[i]),
             newValue |-> value(new, differing[i])]]

AuditoriumFive == [DuneRow EXCEPT !.auditorium = "Auditorium 5"]

StoredDune == WithId(seedData[3], 1)

\* C16: the diffs of every update are one FieldDiff (field, existing value,
\* incoming value) for each field of the fixed order whose values differ and
\* none for the others; the row that changes only the auditorium of the stored
\* Dune showtime gives one update with the one diff of the auditorium.
C16_DiffPerDifferingField ==
    Returned =>
        /\ \A u \in Range(result[1].updates) :
              u.diffs = ExpectedDiffs(ExistingData(u.existingId), u.data)
        /\ (csvRows = <<AuditoriumFive>> /\ existingShowtimes = <<StoredDune>>) =>
              /\ Len(result[1].updates) = 1
              /\ result[1].updates[1].diffs =
                    <<[field |-> "auditorium", oldValue |-> "Auditorium 1",
                       newValue |-> "Auditorium 5"]>>

\* the auditorium example has been reconciled
C16_Witness ==
    /\ Returned
    /\ csvRows = <<AuditoriumFive>> /\ existingShowtimes = <<StoredDune>>
    /\ Len(result[1].updates) = 1

\* the existing showtime the map keeps for key k: the last one of that key
LastExisting(k) ==
    LET of == {i \in 1..Len(existingShowtimes) : KeyOfExisting[existingShowtimes[i]] = k}
    IN  existingShowtimes[CHOOSE i \in of : \A j \in of : j <= i]

\* the record of the first valid row of key k
FirstIncoming(k) ==
    DataOfRow[csvRows[CHOOSE i \in FirstRows : KeyOfRow(i) = k]]

MatchedKeys == IncomingKeys \cap ExistingKeys

MatchedDiffs(k) == ExpectedDiffs(existingToShowtimeData(LastExisting(k)), FirstIncoming(k))

\* C17: every update has a non-empty diff list, the identifier of the existing
\* showtime of its key and the incoming record of that key as data; a key of
\* both maps has an update exactly when the two records differ, and when they
\* do not differ it is in no collection.
C17_UpdateIffMatchedAndDiffers ==
    Returned =>
        LET r == result[1]
        IN  /\ \A u \in Range(r.updates) :
                  /\ Len(u.diffs) > 0
                  /\ KeyOfData[u.data] \in MatchedKeys
                  /\ u.existingId = LastExisting(KeyOfData[u.data]).id
                  /\ u.data = FirstIncoming(KeyOfData[u.data])
            /\ \A k \in MatchedKeys :
                  IF MatchedDiffs(k) # <<>>
                  THEN k \in Range(KeySeq(r.updates))
                  ELSE k \notin Range(KeySeq(r.adds)) \cup Range(KeySeq(r.updates))
                                \cup Range(KeySeq(r.archives))

\* a preview with an update beside a matched key that has no diff
C17_Witness ==
    /\ Returned
    /\ result[1].updates # <<>>
    /\ \E k \in MatchedKeys : MatchedDiffs(k) = <<>>

ArchivedIds(r) == {r.archives[i].existingId : i \in 1..Len(r.archives)}

ExistingIds == {existingShowtimes[i].id : i \in 1..Len(existingShowtimes)}

FirstRowOf(k) == CHOOSE i \in FirstRows : KeyOfRow(i) = k

\* C19: the adds are one entry for each key of a valid row that no existing
\* showtime has, carrying the record of the first row of that key with the
\* title as the row wrote it, trimmed; one valid row against an empty schedule
\* gives 1 add, 0 updates and 0 archives.
C19_AddPerNewKey ==
    Returned =>
        LET r == result[1]
        IN  /\ NoRepeat(KeySeq(r.adds))
            /\ Range(KeySeq(r.adds)) = IncomingKeys \ ExistingKeys
            /\ \A a \in Range(r.adds) :
                  /\ a.data = FirstIncoming(KeyOfData[a.data])
                  /\ a.data.movieTitle = trim(csvRows[FirstRowOf(KeyOfData[a.data])].movie_title)
            /\ (existingShowtimes = <<>> /\ Len(csvRows) = 1 /\ ValidRows = {1}) =>
                  Len(r.adds) = 1 /\ r.updates = <<>> /\ r.archives = <<>>

\* one valid row against an empty schedule gave an add whose title is not the
\* normalized one
C19_Witness ==
    /\ Returned
    /\ existingShowtimes = <<>> /\ Len(csvRows) = 1
    /\ Len(result[1].adds) = 1
    /\ result[1].adds[1].data.movieTitle # normalizeTitle(result[1].adds[1].data.movieTitle)

\* a column that is absent, empty or made of whitespace only
Blank(row, c) == c \notin DOMAIN row \/ CharsOf(row[c]) \subseteq {" ", "\t", "\n", "\r"}

\* the positions of the rows that lack a movie title or a start time
LackingRows ==
    {i \in 1..Len(csvRows) : Blank(csvRows[i], "movie_title") \/ Blank(csvRows[i], "start_time")}

DuneWithoutStart == [DuneRow EXCEPT !.start_time = " "]

\* C20: what reconcile gives for a batch, a preview or a failure, is what it
\* gives for the batch without the rows that lack a movie title or a start
\* time; no add or update comes from such a row.
C20_RowsLackingRequiredExcluded ==
    result # <<>> =>
        /\ result[1] = reconcile(Without(LackingRows), existingShowtimes)
        /\ Returned =>
              \A a \in Range(result[1].adds) \cup Range(result[1].updates) :
                 \A i \in LackingRows : a.data # DataOfRow[csvRows[i]]

\* the row with the stored title and a start time of spaces did not keep the
\* stored showtime from being archived
C20_Witness ==
    /\ Returned
    /\ csvRows = <<DuneWithoutStart>> /\ existingShowtimes = <<StoredDune>>
    /\ Len(result[1].archives) = 1 /\ result[1].adds = <<>> /\ result[1].updates = <<>>

(***************************************************************************)
(* Claims about what an apply leaves in the table.                         *)
(***************************************************************************)
\* what a successful apply of body shows in the table after it
Postcondition(body, before, id, after) ==
    /\ DOMAIN after \ DOMAIN before = id..(id + Len(body.adds) - 1)
    /\ \A i \in 1..Len(body.adds) :
          LET written == Written(body.adds[i].data)
          IN  /\ after[id + i - 1].status = "active"
              /\ after[id + i - 1].id = id + i - 1
              /\ \A f \in DOMAIN written : after[id + i - 1][f] = written[f]
    /\ \A i \in 1..Len(body.updates) :
          LET u == body.updates[i]
              written == Written(u.data)
          IN  /\ u.existingId \in DOMAIN after
              /\ after[u.existingId].id = u.existingId
              /\ after[u.existingId].status = before[u.existingId].status
              /\ \A f \in DOMAIN written : after[u.existingId][f] = written[f]
    /\ \A i \in 1..Len(body.archives) :
          /\ body.archives[i].existingId \in DOMAIN after
          /\ after[body.archives[i].existingId].status = "archived"

\* C21: after an apply answered with success the table holds one new active
\* record for each add; for each update the record of the stored identifier
\* holds the incoming values, its identifier and status as before; for each
\* archive the record of the stored identifier is still there, archived.
C21_ApplyPostcondition ==
    [][\A fault \in 0..MaxFault :
          /\ (ServeApply(fault) /\ call'[1].response.status = 200) =>
                Postcondition(call[1].body, showtimeTable, nextId, showtimeTable')
          /\ (ApiApply(fault) /\ applyPOST(held[1], showtimeTable, nextId, fault).status = 200) =>
                Postcondition(held[1], showtimeTable, nextId, showtimeTable')]_vars

\* the page's apply of a preview with an add, an update and an archive succeeded
C21_Witness ==
    /\ Answered("apply")
    /\ call[1].response.status = 200
    /\ preview[1].adds # <<>> /\ preview[1].updates # <<>> /\ preview[1].archives # <<>>

(***************************************************************************)
(* Claims about existing showtimes that share a key.                       *)
(***************************************************************************)
\* the positions of the existing showtimes that a later one has the key of
EarlierDuplicates ==
    {i \in 1..Len(existingShowtimes) :
        \E j \in (i + 1)..Len(existingShowtimes) :
            KeyOfExisting[existingShowtimes[j]] = KeyOfExisting[existingShowtimes[i]]}

\* the existing showtimes without those at the positions in gone
ExistingWithout(gone) ==
    LET pick[n \in 0..Len(existingShowtimes)] ==
            IF n = 0 THEN <<>>
            ELSE IF n \in gone THEN pick[n - 1] ELSE Append(pick[n - 1], existingShowtimes[n])
    IN  pick[Len(existingShowtimes)]

\* two results of reconcile that differ in the order of the archives at most
\* (a key set again keeps its first place in the map's iteration order)
SameButArchiveOrder(a, b) ==
    /\ a.threw = b.threw
    /\ IF a.threw THEN a = b
       ELSE /\ a.adds = b.adds
            /\ a.updates = b.updates
            /\ Len(a.archives) = Len(b.archives)
            /\ Range(a.archives) = Range(b.archives)

\* C22: of the existing showtimes of one key only the last can be referred to
\* by an update or an archive; the earlier ones are in no collection, and
\* reconcile gives the entries it gives without them, a failure no more than
\* a preview.
C22_LastExistingOfKeyWins ==
    result # <<>> =>
        /\ SameButArchiveOrder(result[1], reconcile(csvRows, ExistingWithout(EarlierDuplicates)))
        /\ Returned =>
              \A i \in EarlierDuplicates :
                  existingShowtimes[i].id \notin Referenced(result[1])

\* two existing showtimes of one key and a row of that key: the update refers
\* to the later showtime
C22_Witness ==
    /\ Returned
    /\ Len(existingShowtimes) = 2 /\ EarlierDuplicates = {1}
    /\ Len(result[1].updates) = 1
    /\ result[1].updates[1].existingId = existingShowtimes[2].id
    /\ result[1].archives = <<>>

(***************************************************************************)
(* Claims about what the upload route rejects.                             *)
(***************************************************************************)
\* a row that enters reconciliation with a start time that is no date
Unparseable(row) == HasRequired(row) /\ NewDate(trim(Column(row, "start_time"))).time = "NaN"

HasUnparseable(csv) == \E i \in 1..Len(csv.data) : Unparseable(csv.data[i])

\* C23: when a row of the CSV that has both required fields has a start time
\* that is no date, reconcile throws and returns no preview, the upload is
\* answered with an error, the caller gets no preview and the table is as it
\* was.
C23_UnparseableStartFailsUpload ==
    [][\A csv \in SessionCsvs, order \in Orders :
          (SessionUpload(csv, order) /\ HasUnparseable(csv)) =>
              /\ reconcile(csv.data, FindManyActive(showtimeTable, order)).threw
              /\ call'[1].response = [status |-> 500]
              /\ held' = held
              /\ showtimeTable' = showtimeTable]_vars

\* a CSV with a valid row and a row whose start time is no date was uploaded
\* against a table of active showtimes and answered with the error
C23_Witness ==
    /\ Answered("upload")
    /\ HasUnparseable(call[1].body)
    /\ \E i \in 1..Len(call[1].body.data) :
          HasRequired(call[1].body.data[i]) /\ ~Unparseable(call[1].body.data[i])
    /\ call[1].response.status = 500
    /\ FindManyActive(showtimeTable, "asc") # <<>>

\* no data row of the CSV has both a movie title and a start time
NoValidRow(csv) == \A i \in 1..Len(csv.data) : ~HasRequired(csv.data[i])

\* C24: an upload of a CSV none of whose data rows has both a movie title and
\* a start time is answered with an error, and the caller gets no preview.
C24_NoValidRowRejected ==
    [][\A csv \in SessionCsvs, order \in Orders :
          (SessionUpload(csv, order) /\ NoValidRow(csv)) =>
              /\ call'[1].response.status >= 400
              /\ held' = held]_vars

(***************************************************************************)
(* Claims about the seed route.                                            *)
(***************************************************************************)
\* the table holds each seed showtime once, active, and nothing else
IsSeedData(table) ==
    /\ Cardinality(DOMAIN table) = Len(seedData)
    /\ {[f \in DOMAIN seedData[1] |-> table[i][f]] : i \in DOMAIN table}
           = {seedData[k] : k \in 1..Len(seedData)}

\* C25: when seed requests have run and none is between its two awaits, the
\* table holds exactly the seed data.
C25_SeedIdempotent == (seeding = 0 /\ nextId > 1) => IsSeedData(showtimeTable)

(***************************************************************************)
(* Claims about the page's polling.                                        *)
(***************************************************************************)
\* C26: while the page holds a preview no polling timer is set and no step
\* starts a polling fetch; whenever the page holds no preview, after a
\* successful apply or a cancel as at the start, the timer is set.
C26_PollingPausedWhilePreview ==
    [][/\ preview # <<>> => (~interval /\ polls' = polls)
       /\ preview' # <<>> => ~interval'
       /\ preview' = <<>> => interval']_vars

\* the timer has started a fetch, a preview was shown since, and the apply of
\* it has been answered with success while the modal is still up
C26_Witness ==
    /\ polls > 0
    /\ preview # <<>> /\ ~interval
    /\ Answered("apply") /\ call[1].response.status = 200

(***************************************************************************)
(* Claims about rounds of upload and apply.                                *)
(***************************************************************************)
\* the match keys of the active records of a table, one for each record
ActiveKeys(table) ==
    LET active == FindManyActive(table, "asc")
    IN  [i \in 1..Len(active) |-> ExistingKey(active[i])]

\* no two active records of the table share a match key
NoDuplicateActive(table) == NoRepeat(ActiveKeys(table))

EmptyPreview == [threw |-> FALSE, adds |-> <<>>, updates |-> <<>>, archives |-> <<>>]

\* C27: when the preview of a batch against a table without two active
\* records of one key has been applied with success and the same batch is
\* reconciled against the table the apply left, the preview has no add, no
\* update and no archive.
C27_ReapplyConverges ==
    (Len(result) = 2 /\ call[1].response.status = 200 /\ NoDuplicateActive(call[1].read))
        => result[2] = EmptyPreview

\* a preview with an add, an update and an archive was applied and the batch
\* reconciled again
C27_Witness ==
    /\ Len(result) = 2 /\ call[1].response.status = 200 /\ NoDuplicateActive(call[1].read)
    /\ result[1].adds # <<>> /\ result[1].updates # <<>> /\ result[1].archives # <<>>

\* C28: whatever the callers upload and apply, previews of one table state
\* both applied and one preview applied twice included, no two active records
\* of the table have the same match key.
C28_NoDuplicateActiveShowtimes == NoDuplicateActive(showtimeTable)

(***************************************************************************)
(* Claims about archived records.                                          *)
(***************************************************************************)
ArchivedIn(table) == {i \in DOMAIN table : table[i].status = "archived"}

\* the table without its archived records
WithoutArchived(table) == [i \in DOMAIN table \ ArchivedIn(table) |-> table[i]]

\* the keys of the valid rows of a CSV that only archived records have
KeysOfArchivedOnly(csv, table) ==
    {RowKey(csvRowToShowtimeData(csv.data[i])) :
        i \in {j \in 1..Len(csv.data) : HasRequired(csv.data[j])}}
    \cap ({ExistingKey(table[i]) : i \in ArchivedIn(table)}
          \ Range(ActiveKeys(table)))

\* C29: no step of the upload or apply route makes an archived record active,
\* an update of an archived record included; the read of the active records
\* returns no archived record; the upload route answers as if
\* the archived records were not in the table, refers to none of them in its
\* preview, and a row whose key only an archived record has is an add.
C29_ArchivedIsAbsorbing ==
    [][/\ \A i \in ArchivedIn(showtimeTable) \cap DOMAIN showtimeTable' :
             showtimeTable'[i].status = "archived"
       /\ \A order \in Orders :
             LET read == FindManyActive(showtimeTable', order)
             IN  {read[k].id : k \in 1..Len(read)} \cap ArchivedIn(showtimeTable') = {}
       /\ \A csv \in SessionCsvs, order \in Orders :
             SessionUpload(csv, order) =>
                 LET response == call'[1].response
                 IN  /\ response = uploadPOST(csv, WithoutArchived(showtimeTable), order)
                     /\ response.status = 200 =>
                            /\ Referenced(response.data) \cap ArchivedIn(showtimeTable) = {}
                            /\ KeysOfArchivedOnly(csv, showtimeTable)
                                   \subseteq {RowKey(response.data.adds[i].data) :
                                                 i \in 1..Len(response.data.adds)}]_vars

\* an apply has written the update of a record that was archived before it,
\* and the record is archived still
C29_Witness ==
    /\ Answered("apply") /\ call[1].response.status = 200
    /\ \E k \in 1..Len(call[1].body.updates) :
          LET id == call[1].body.updates[k].existingId
          IN  /\ id \in ArchivedIn(call[1].read)
              /\ showtimeTable[id].status = "archived"
              /\ showtimeTable[id].movieTitle # call[1].read[id].movieTitle

(***************************************************************************)
(* Claims about what an apply leaves alone.                                *)
(***************************************************************************)
\* the records of before that a step has left in the table with every field
Kept(ids) ==
    \A id \in ids : id \in DOMAIN showtimeTable' /\ showtimeTable'[id] = showtimeTable[id]

\* an apply of a preview without entries succeeds and leaves the table as it was
EmptyApplyIsNoOp(body, status) ==
    TotalChanges(body) = 0 => status = 200 /\ showtimeTable' = showtimeTable

C30_EmptyPreviewApplied ==
    /\ Answered("apply") /\ call[1].response.status = 200
    /\ TotalChanges(call[1].body) = 0
    /\ ArchivedIn(showtimeTable) # {} /\ ArchivedIn(showtimeTable) # DOMAIN showtimeTable

=============================================================================
